---- MODULE Spec2Model ----
(***************************************************************************)
(* The physics engine (GameEngine.ts), the run-loop driver (usePhysics.ts)  *)
(* and the subscription handler of the online hook (useSupabaseGame) of    *)
(* zoopaloola.                                                             *)
(*                                                                         *)
(* Numbers.  The program computes in IEEE doubles; the model computes in   *)
(* fixed point: a length or a speed is an integer count of 1/Unit pixel,   *)
(* every product is divided back with truncation toward zero (Trunc) and   *)
(* Math.sqrt is the integer square root (Sqrt).  Truncation toward zero    *)
(* keeps the two properties of the double arithmetic that the engine       *)
(* relies on: v * FRICTION is strictly smaller in magnitude than v, and    *)
(* the arithmetic is symmetric under a change of sign.                     *)
(* A ball's scale only ever takes the values 1 - 0.1 - ... - 0.1; the      *)
(* field scale holds the number of subtractions (see ScalePositive).       *)
(*                                                                         *)
(* Evaluation.  A value that is computed once and read several times, as   *)
(* a local of the program is, is bound by a set constructor,               *)
(* Only({f(x) : x \in {e}}): TLC evaluates e once and binds x to the value, *)
(* also where it evaluates ENABLED, which never keeps the value of a LET.  *)
(***************************************************************************)
EXTENDS Integers, Sequences, FiniteSets, TLC

VARIABLES
  stateRef,              \* stateRef.current: the GameState the driver ticks
  events,                \* engine.events: the events of the last tick
  isSimulating,          \* isSimulating.current
  onSimulationComplete,  \* onSimulationComplete.current: a callback, 0 for null
  requestRef,            \* the simulateStep callbacks requestAnimationFrame holds
  calls,                 \* the calls of shoot made; the n-th call passes callback n
  refused,               \* the calls of shoot that returned early
  invoked,               \* the callbacks invoked, in order
  lastArg,               \* the argument of the last invocation, <<>> before it
  replays,               \* the calls of shoot the subscription handler has made
  gameState,             \* the React state gameState: the last value set
  setCalls,              \* the values the last step passed to setGameState, in order
  playerId,              \* useSupabaseGame: playerId, 0 for null
  status,                \* useSupabaseGame: status
  processedShots,        \* useSupabaseGame: processedShotsRef.current
  delivered,             \* the payloads the subscription handler has been called with
  hook,                  \* the hook that has called usePhysics
  isProcessingShot,      \* useSupabaseGame: isProcessingShot
  pending,               \* useSupabaseGame.onShoot: the call waiting at an await
  row,                   \* the row of the game in the table games
  joiners                \* the clients that call joinGame: their hooks' state

(* the state of useSupabaseGame *)
online == <<playerId, status, processedShots, delivered>>

(* the table and the clients that join *)
lobby == <<row, joiners>>

vars == <<stateRef, events, isSimulating, onSimulationComplete, requestRef,
          calls, refused, invoked, lastArg, replays, gameState, setCalls, online,
          hook, isProcessingShot, pending, lobby>>

----------------------------------------------------------------------------
(* Bounds of the model *)

MaxCalls == 2

MaxDeliveries == 3

----------------------------------------------------------------------------
(* Numbers *)

Unit == 100

Abs(a) == IF a < 0 THEN -a ELSE a

Sign(a) == IF a > 0 THEN 1 ELSE IF a < 0 THEN -1 ELSE 0

Min(a, b) == IF a < b THEN a ELSE b

(* a / b for b > 0, rounded toward zero *)
Trunc(a, b) == IF a >= 0 THEN a \div b ELSE -((-a) \div b)

(* the element of a singleton *)
Only(S) == CHOOSE x \in S : TRUE

RECURSIVE SqrtBetween(_, _, _)
SqrtBetween(n, lo, hi) ==
  IF lo >= hi THEN lo
  ELSE Only({ IF mid * mid <= n THEN SqrtBetween(n, mid, hi)
                                ELSE SqrtBetween(n, lo, mid - 1) :
              mid \in {(lo + hi + 1) \div 2} })

(* Math.sqrt on a squared length of at most 46340^2 *)
Sqrt(n) == Only({ SqrtBetween(m, 0, 46340) : m \in {n} })

----------------------------------------------------------------------------
(* GameEngine.ts: constants, in 1/1000 for factors and 1/Unit for lengths *)

FRICTION == 985
WALL_BOUNCE == 700
BALL_BOUNCE == 850
MIN_VELOCITY == 5

(* Vec2 *)
Vec(x, y) == [x |-> x, y |-> y]

add(a, b) == Vec(a.x + b.x, a.y + b.y)

sub(a, b) == Vec(a.x - b.x, a.y - b.y)

(* Vec2.mult by the factor num/den *)
mult(a, num, den) == Vec(Trunc(a.x * num, den), Trunc(a.y * num, den))

magSq(a) == a.x * a.x + a.y * a.y

mag(a) == Sqrt(magSq(a))

dot(a, b) == a.x * b.x + a.y * b.y

----------------------------------------------------------------------------
(* App.tsx: the size both hooks are constructed with *)

LOGICAL_WIDTH == 800
LOGICAL_HEIGHT == 600

(* GameEngine constructor *)
padding == 50
maxWidth == 800

boundsW == Min(LOGICAL_WIDTH - padding, maxWidth) * Unit

boundsH == Min((LOGICAL_HEIGHT - padding) * Unit, Trunc(boundsW * 7, 10))

bounds == [width |-> boundsW, height |-> boundsH,
           cx |-> (LOGICAL_WIDTH * Unit) \div 2,
           cy |-> (LOGICAL_HEIGHT * Unit) \div 2,
           rx |-> boundsW \div 2, ry |-> boundsH \div 2]

(* GameEngine.createWalls *)
wallThick == 35

wallLen == Trunc(bounds.rx * 11, 10)

walls ==
  << [pos |-> Vec(bounds.cx - bounds.rx, bounds.cy),
      w |-> wallThick * Unit, h |-> wallLen],
     [pos |-> Vec(bounds.cx + bounds.rx, bounds.cy),
      w |-> wallThick * Unit, h |-> wallLen],
     [pos |-> Vec(bounds.cx, bounds.cy - bounds.ry),
      w |-> Trunc(wallLen * 6, 10), h |-> wallThick * Unit],
     [pos |-> Vec(bounds.cx, bounds.cy + bounds.ry),
      w |-> Trunc(wallLen * 6, 10), h |-> wallThick * Unit] >>

----------------------------------------------------------------------------
(* GameEngine.initGame *)

count == 12

(* Math.cos and Math.sin of 2 pi i / count, in 1/1000, for i = 0 .. 11 *)
Cos12 == <<1000, 866, 500, 0, -500, -866, -1000, -866, -500, 0, 500, 866>>

Sin12 == <<0, 500, 866, 1000, 866, 500, 0, -500, -866, -1000, -866, -500>>

radius == Trunc(bounds.width * 35, 1000)

circleR == Trunc(bounds.ry * 55, 100)

NewBall(id, player, pos) ==
  [id |-> id, player |-> player, pos |-> pos, vel |-> Vec(0, 0),
   r |-> radius, isDead |-> FALSE, scale |-> 0, rotation |-> 0]
  \* scale 0: the double 1, no `scale -= 0.1` executed yet (see ScalePositive)

(* RingBall with every third ball, not every second, for player 1 *)
RingBallThirds(i) ==
  NewBall(i, IF i % 3 = 0 THEN 1 ELSE 2,
          Vec(bounds.cx + Trunc(Cos12[i + 1] * circleR, 1000),
              bounds.cy + Trunc(Sin12[i + 1] * circleR, 1000)))

RingBall(i) ==
  NewBall(i, IF i % 2 = 0 THEN 1 ELSE 2,
          Vec(bounds.cx + Trunc(Cos12[i + 1] * circleR, 1000),
              bounds.cy + Trunc(Sin12[i + 1] * circleR, 1000)))

initGame ==
  [balls  |-> [i \in 1..count |-> RingBall(i - 1)]
               \o <<NewBall(99, 1, Vec(bounds.cx - Trunc(radius * 15, 10), bounds.cy)),
                    NewBall(100, 2, Vec(bounds.cx + Trunc(radius * 15, 10), bounds.cy))>>,
   turn   |-> 1,
   scores |-> [p1 |-> 7, p2 |-> 7],
   status |-> "playing",
   winner |-> 0]

----------------------------------------------------------------------------
(* GameEngine.update, the part of a dead ball: `if (b.scale > 0) b.scale -= 0.1`.
   scale counts the subtractions executed on the initial 1.  In doubles
   1 - 0.1 - ... - 0.1 is 0.10000000000000014 after nine subtractions,
   1.3877787807814457e-16 after ten and -0.09999999999999987 after eleven:
   the value is positive up to and including the tenth. *)

LastPositiveScale == 10

ScalePositive(b) == b.scale <= LastPositiveScale

Event(type, data) == [type |-> type, data |-> data]

(* checkWallCollision that also reflects a ball sliding along the wall,
   vDotN <= 0 *)
checkWallCollisionGrazing(ball, wall) ==
  LET rx == wall.pos.x - wall.w \div 2
      ry == wall.pos.y - wall.h \div 2
      testX == IF ball.pos.x < rx THEN rx
               ELSE IF ball.pos.x > rx + wall.w THEN rx + wall.w
               ELSE ball.pos.x
      testY == IF ball.pos.y < ry THEN ry
               ELSE IF ball.pos.y > ry + wall.h THEN ry + wall.h
               ELSE ball.pos.y
      distX == ball.pos.x - testX
      distY == ball.pos.y - testY
  IN  IF /\ Abs(distX) <= ball.r
         /\ Abs(distY) <= ball.r
         /\ distX * distX + distY * distY <= ball.r * ball.r
      THEN LET distance == Sqrt(distX * distX + distY * distY)
               overlap == ball.r - distance
               push == IF distance = 0 THEN Vec(overlap, 0)
                       ELSE Vec(Trunc(distX * overlap, distance),
                                Trunc(distY * overlap, distance))
               n == IF Abs(distX) > Abs(distY) THEN Vec(Sign(distX), 0)
                    ELSE Vec(0, Sign(distY))
               v == ball.vel
               vDotN == dot(v, n)
               moved == [ball EXCEPT !.pos = add(ball.pos, push)]
           IN  IF vDotN <= 0
               THEN [ball |-> [moved EXCEPT
                                 !.vel = mult(sub(v, mult(n, 2 * vDotN, 1)),
                                              WALL_BOUNCE, 1000)],
                     events |-> <<Event("wall", 0)>>]
               ELSE [ball |-> moved, events |-> <<>>]
      ELSE [ball |-> ball, events |-> <<>>]

(* GameEngine.checkWallCollision: the ball after the call and the events pushed *)
checkWallCollision(ball, wall) ==
  LET rx == wall.pos.x - wall.w \div 2
      ry == wall.pos.y - wall.h \div 2
      testX == IF ball.pos.x < rx THEN rx
               ELSE IF ball.pos.x > rx + wall.w THEN rx + wall.w
               ELSE ball.pos.x
      testY == IF ball.pos.y < ry THEN ry
               ELSE IF ball.pos.y > ry + wall.h THEN ry + wall.h
               ELSE ball.pos.y
      distX == ball.pos.x - testX
      distY == ball.pos.y - testY
  IN  \* distance <= ball.r, decided on the squares (and without overflow)
      IF /\ Abs(distX) <= ball.r
         /\ Abs(distY) <= ball.r
         /\ distX * distX + distY * distY <= ball.r * ball.r
      THEN LET distance == Sqrt(distX * distX + distY * distY)
               overlap == ball.r - distance
               push == IF distance = 0 THEN Vec(overlap, 0)
                       ELSE Vec(Trunc(distX * overlap, distance),
                                Trunc(distY * overlap, distance))
               n == IF Abs(distX) > Abs(distY) THEN Vec(Sign(distX), 0)
                    ELSE Vec(0, Sign(distY))
               v == ball.vel
               vDotN == dot(v, n)
               moved == [ball EXCEPT !.pos = add(ball.pos, push)]
           IN  IF vDotN < 0
               THEN [ball |-> [moved EXCEPT
                                 !.vel = mult(sub(v, mult(n, 2 * vDotN, 1)),
                                              WALL_BOUNCE, 1000)],
                     events |-> <<Event("wall", 0)>>]
               ELSE [ball |-> moved, events |-> <<>>]
      ELSE [ball |-> ball, events |-> <<>>]

(* `this.walls.forEach(w => this.checkWallCollision(b, w))`, from the k-th
   wall on *)
RECURSIVE checkWalls(_, _)
checkWalls(acc, k) ==
  IF k > Len(walls) THEN acc
  ELSE Only({ checkWalls(next, k + 1) :
              next \in { [ball |-> res.ball, events |-> acc.events \o res.events] :
                         res \in {checkWallCollision(ball, walls[k]) : ball \in {acc.ball}} } })

OutOfBounds(pos) ==
  \/ pos.x < bounds.cx - bounds.rx
  \/ pos.x > bounds.cx + bounds.rx
  \/ pos.y < bounds.cy - bounds.ry
  \/ pos.y > bounds.cy + bounds.ry

(* checkBounds that pushes no splash event *)
checkBoundsSilent(b) ==
  IF OutOfBounds(b.pos) /\ ~b.isDead
  THEN [ball |-> [b EXCEPT !.isDead = TRUE], events |-> <<>>]
  ELSE [ball |-> b, events |-> <<>>]

(* the check of the bounds at the end of the per-ball callback of update *)
checkBounds(b) ==
  IF OutOfBounds(b.pos) /\ ~b.isDead
  THEN [ball |-> [b EXCEPT !.isDead = TRUE], events |-> <<Event("splash", b.player)>>]
  ELSE [ball |-> b, events |-> <<>>]

(* the velocity floor of update *)
floorVelocity(vel) == IF magSq(vel) < MIN_VELOCITY * MIN_VELOCITY THEN Vec(0, 0) ELSE vel

(* the integration of the per-ball callback of update: position, friction,
   rotation and the velocity floor *)
integrate(b) ==
  LET pos == add(b.pos, b.vel)
      vel == mult(b.vel, FRICTION, 1000)
  IN  [b EXCEPT !.pos = pos,
                !.vel = floorVelocity(vel),
                !.rotation = @ + vel.x]

(* the living branch of the per-ball callback of update *)
updateLiving(b) ==
  Only({ [ball |-> bounded.ball, events |-> walled.events \o bounded.events] :
         <<walled, bounded>> \in
           { <<w, checkBounds(w.ball)>> :
             w \in {checkWalls([ball |-> integrate(b), events |-> <<>>], 1)} } })

(* updateBall with a dead ball that never shrinks *)
updateBallNoShrink(b) ==
  IF b.isDead THEN [ball |-> b, events |-> <<>>] ELSE updateLiving(b)

(* updateBall with a dead ball that is alive again once it has shrunk away *)
updateBallRespawn(b) ==
  IF b.isDead
  THEN [ball |-> IF ScalePositive(b) THEN [b EXCEPT !.scale = @ + 1]
                 ELSE [b EXCEPT !.isDead = FALSE],
        events |-> <<>>]
  ELSE updateLiving(b)

(* updateBall without the test `b.scale > 0` *)
updateBallShrinksOn(b) ==
  IF b.isDead THEN [ball |-> [b EXCEPT !.scale = @ + 1], events |-> <<>>]
  ELSE updateLiving(b)

(* the per-ball callback of update: the ball after it and the events pushed *)
updateBall(b) ==
  IF b.isDead
  THEN [ball |-> IF ScalePositive(b) THEN [b EXCEPT !.scale = @ + 1] ELSE b,
        events |-> <<>>]
  ELSE updateLiving(b)

----------------------------------------------------------------------------
(* GameEngine.checkBallCollisions *)

(* dist < lim for the centers of b1 and b2, decided on the squares *)
Closer(b1, b2, lim) ==
  LET distV == sub(b1.pos, b2.pos)
  IN  /\ Abs(distV.x) < lim
      /\ Abs(distV.y) < lim
      /\ magSq(distV) < lim * lim

(* dist <= lim for the centers of b1 and b2, decided on the squares *)
Within(b1, b2, lim) ==
  LET distV == sub(b1.pos, b2.pos)
  IN  /\ Abs(distV.x) <= lim
      /\ Abs(distV.y) <= lim
      /\ magSq(distV) <= lim * lim

(* staticPair without the test of isDead *)
staticPairWithDead(balls, i, j) ==
  LET b1 == balls[i]
      b2 == balls[j]
      minDist == b1.r + b2.r
  IN  IF Closer(b1, b2, minDist)
      THEN LET distV == sub(b1.pos, b2.pos)
               dist == mag(distV)
               overlap == minDist - dist
               correction == IF dist = 0 THEN Vec(0, 0)
                             ELSE mult(distV, Trunc(overlap * 51, 100), dist)
           IN  [balls EXCEPT ![i].pos = add(b1.pos, correction),
                             ![j].pos = sub(b2.pos, correction)]
      ELSE balls

(* static resolution, the body of the inner loop for the pair i < j *)
staticPair(balls, i, j) ==
  LET b1 == balls[i]
      b2 == balls[j]
      minDist == b1.r + b2.r
  IN  IF b1.isDead \/ b2.isDead THEN balls
      ELSE IF Closer(b1, b2, minDist)
      THEN LET distV == sub(b1.pos, b2.pos)
               dist == mag(distV)
               overlap == minDist - dist
               \* n.mult(overlap * 0.51), n = distV.norm(): zero when dist is 0
               correction == IF dist = 0 THEN Vec(0, 0)
                             ELSE mult(distV, Trunc(overlap * 51, 100), dist)
           IN  [balls EXCEPT ![i].pos = add(b1.pos, correction),
                             ![j].pos = sub(b2.pos, correction)]
      ELSE balls

(* dynamicPair with the whole impulse given to each ball, not half of it *)
dynamicPairWholeImpulse(balls, i, j) ==
  LET b1 == balls[i]
      b2 == balls[j]
      minDist == b1.r + b2.r + Unit
  IN  IF b1.isDead \/ b2.isDead THEN balls
      ELSE IF Within(b1, b2, minDist)
      THEN LET distV == sub(b1.pos, b2.pos)
               dist == mag(distV)
               vRel == sub(b1.vel, b2.vel)
               speed == IF dist = 0 THEN 0 ELSE Trunc(dot(vRel, distV), dist)
               impulseScalar == Trunc(-(1000 + BALL_BOUNCE) * speed, 1000)
               impulse == IF dist = 0 THEN Vec(0, 0)
                          ELSE mult(distV, impulseScalar, dist)
           IN  IF speed > 0 THEN balls
               ELSE [balls EXCEPT ![i].vel = add(b1.vel, impulse),
                                  ![j].vel = sub(b2.vel, impulse)]
      ELSE balls

(* dynamic resolution, the body of the inner loop for the pair i < j *)
dynamicPair(balls, i, j) ==
  LET b1 == balls[i]
      b2 == balls[j]
      minDist == b1.r + b2.r + Unit
  IN  IF b1.isDead \/ b2.isDead THEN balls
      ELSE IF Within(b1, b2, minDist)
      THEN LET distV == sub(b1.pos, b2.pos)
               dist == mag(distV)
               vRel == sub(b1.vel, b2.vel)
               \* vRel.dot(n), n = distV.norm(): zero when dist is 0
               speed == IF dist = 0 THEN 0 ELSE Trunc(dot(vRel, distV), dist)
               impulseScalar == Trunc(-(1000 + BALL_BOUNCE) * speed, 2000)
               impulse == IF dist = 0 THEN Vec(0, 0)
                          ELSE mult(distV, impulseScalar, dist)
           IN  IF speed > 0 THEN balls
               ELSE [balls EXCEPT ![i].vel = add(b1.vel, impulse),
                                  ![j].vel = sub(b2.vel, impulse)]
      ELSE balls

(* `for (j = i + 1; j < balls.length; j++)` with the static body, from j on *)
RECURSIVE staticInner(_, _, _)
staticInner(balls, i, j) ==
  IF j > Len(balls) THEN balls
  ELSE Only({ staticInner(next, i, j + 1) : next \in {staticPair(balls, i, j)} })

(* `for (i = 0; i < balls.length; i++)` of one static pass, from i on *)
RECURSIVE staticOuter(_, _)
staticOuter(balls, i) ==
  IF i > Len(balls) THEN balls
  ELSE Only({ staticOuter(next, i + 1) : next \in {staticInner(balls, i, i + 1)} })

RECURSIVE dynamicInner(_, _, _)
dynamicInner(balls, i, j) ==
  IF j > Len(balls) THEN balls
  ELSE Only({ dynamicInner(next, i, j + 1) : next \in {dynamicPair(balls, i, j)} })

RECURSIVE dynamicOuter(_, _)
dynamicOuter(balls, i) ==
  IF i > Len(balls) THEN balls
  ELSE Only({ dynamicOuter(next, i + 1) : next \in {dynamicInner(balls, i, i + 1)} })

checkBallCollisions(balls) ==
  \* `for (k = 0; k < 2; k++)`: two static passes, then the dynamic pass
  Only({ dynamicOuter(second, 1) :
         second \in { staticOuter(first, 1) : first \in {staticOuter(balls, 1)} } })

----------------------------------------------------------------------------
(* GameEngine.updateScores: the state after the call and the events pushed *)

Living(balls, player) ==
  Cardinality({k \in DOMAIN balls : balls[k].player = player /\ ~balls[k].isDead})

(* updateScores counting the dead balls too *)
updateScoresCountsDead(state) ==
  LET count1 == Cardinality({k \in DOMAIN state.balls : state.balls[k].player = 1})
      count2 == Cardinality({k \in DOMAIN state.balls : state.balls[k].player = 2})
  IN  [state |-> [state EXCEPT !.scores = [p1 |-> count1, p2 |-> count2]],
       events |-> <<>>]

(* updateScores with a draw, both scores 0, sent back to waiting *)
updateScoresDraw(state) ==
  LET p1 == Living(state.balls, 1)
      p2 == Living(state.balls, 2)
      scored == [state EXCEPT !.scores = [p1 |-> p1, p2 |-> p2]]
  IN  IF p1 = 0 /\ p2 = 0
      THEN [state |-> [scored EXCEPT !.status = "waiting", !.winner = 0],
            events |-> <<>>]
      ELSE IF p1 = 0
      THEN [state |-> [scored EXCEPT !.status = "finished", !.winner = 2],
            events |-> <<>>]
      ELSE IF p2 = 0
      THEN [state |-> [scored EXCEPT !.status = "finished", !.winner = 1],
            events |-> <<Event("win", 0)>>]
      ELSE [state |-> scored, events |-> <<>>]

(* updateScores testing the score of player 2 first *)
updateScoresSecondFirst(state) ==
  LET p1 == Living(state.balls, 1)
      p2 == Living(state.balls, 2)
      scored == [state EXCEPT !.scores = [p1 |-> p1, p2 |-> p2]]
  IN  IF p2 = 0
      THEN [state |-> [scored EXCEPT !.status = "finished", !.winner = 1],
            events |-> <<Event("win", 0)>>]
      ELSE IF p1 = 0
      THEN [state |-> [scored EXCEPT !.status = "finished", !.winner = 2],
            events |-> <<>>]
      ELSE [state |-> scored, events |-> <<>>]

(* updateScores pushing the win event for either winner *)
updateScoresWinEither(state) ==
  LET p1 == Living(state.balls, 1)
      p2 == Living(state.balls, 2)
      scored == [state EXCEPT !.scores = [p1 |-> p1, p2 |-> p2]]
  IN  IF p1 = 0
      THEN [state |-> [scored EXCEPT !.status = "finished", !.winner = 2],
            events |-> <<Event("win", 0)>>]
      ELSE IF p2 = 0
      THEN [state |-> [scored EXCEPT !.status = "finished", !.winner = 1],
            events |-> <<Event("win", 0)>>]
      ELSE [state |-> scored, events |-> <<>>]

(* updateScores passing the turn on when a ball has been eliminated *)
updateScoresPassesTurn(state) ==
  LET p1 == Living(state.balls, 1)
      p2 == Living(state.balls, 2)
      scored == [state EXCEPT !.scores = [p1 |-> p1, p2 |-> p2],
                              !.turn = IF state.scores = [p1 |-> p1, p2 |-> p2]
                                       THEN @ ELSE 3 - @]
  IN  IF p1 = 0
      THEN [state |-> [scored EXCEPT !.status = "finished", !.winner = 2],
            events |-> <<>>]
      ELSE IF p2 = 0
      THEN [state |-> [scored EXCEPT !.status = "finished", !.winner = 1],
            events |-> <<Event("win", 0)>>]
      ELSE [state |-> scored, events |-> <<>>]

updateScores(state) ==
  LET p1 == Living(state.balls, 1)
      p2 == Living(state.balls, 2)
      scored == [state EXCEPT !.scores = [p1 |-> p1, p2 |-> p2]]
  IN  IF p1 = 0
      THEN [state |-> [scored EXCEPT !.status = "finished", !.winner = 2],
            events |-> <<>>]
      ELSE IF p2 = 0
      THEN [state |-> [scored EXCEPT !.status = "finished", !.winner = 1],
            events |-> <<Event("win", 0)>>]
      ELSE [state |-> scored, events |-> <<>>]

(* `newState.balls.forEach(b => ...)` of update, from the k-th ball on: the
   balls after their callbacks and the events pushed, in order *)
RECURSIVE updateBalls(_, _)
updateBalls(balls, k) ==
  IF k > Len(balls) THEN [balls |-> <<>>, events |-> <<>>]
  ELSE Only({ [balls |-> <<first.ball>> \o rest.balls,
               events |-> first.events \o rest.events] :
              <<first, rest>> \in {updateBall(balls[k])} \X {updateBalls(balls, k + 1)} })

(* GameEngine.update: the state returned and the events returned *)
update(state) ==
  Only({ [state |-> scored.state, events |-> stepped.events \o scored.events] :
         <<stepped, scored>> \in
           { <<s, updateScores([state EXCEPT !.balls = collided])>> :
             <<s, collided>> \in
               { <<t, checkBallCollisions(t.balls)>> :
                 t \in {updateBalls(state.balls, 1)} } } })

----------------------------------------------------------------------------
(* A late position of a match, for the ticks that end it.  It is the state of
   stateRef after these thirteen shots from initGame, each run to rest (ballId,
   vector in 1/Unit): 1 (362, 362), which leaves ball 1 at rest 2.09 pixels
   inside the lower edge, then 2 (1300, 1500), 3 (1800, 800), 4 (-1100, 1600),
   5 (-200, 2000), 6 (0, 2000), 7 (-700, -1900), 8 (-1300, -1500),
   9 (-1800, -800), 10 (1100, -1600), 11 (200, -2000), 99 (-800, 1800) and
   100 (800, 1800), each of which sends its ball through a gap without touching
   another ball.  An eliminated ball keeps the position and the velocity it
   died with and has shrunk to the end. *)

rolled(b, pos, rotation) == [b EXCEPT !.pos = pos, !.rotation = rotation]

eliminated(b, pos, vel, rotation) ==
  [b EXCEPT !.pos = pos, !.vel = vel, !.rotation = rotation,
            !.isDead = TRUE, !.scale = LastPositiveScale + 1]

lateBalls ==
  <<
     rolled(initGame.balls[1], Vec(54437, 30000), 0),
     rolled(initGame.balls[2], Vec(71325, 56041), 18464),
     eliminated(initGame.balls[3], Vec(59352, 56506), Vec(1113, 1285), 11947),
     eliminated(initGame.balls[4], Vec(67128, 56470), Vec(1384, 612), 26712),
     eliminated(initGame.balls[5], Vec(22451, 57411), Vec(-941, 1372), -10107),
     eliminated(initGame.balls[6], Vec(24701, 57475), Vec(-167, 1689), -2002),
     eliminated(initGame.balls[7], Vec(25000, 56855), Vec(0, 1588), 0),
     eliminated(initGame.balls[8], Vec(20382, 3409), Vec(-587, -1604), -7003),
     eliminated(initGame.balls[9], Vec(20648, 3494), Vec(-1113, -1285), -11947),
     eliminated(initGame.balls[10], Vec(12872, 3530), Vec(-1384, -612), -26712),
     eliminated(initGame.balls[11], Vec(57549, 2589), Vec(941, -1372), 10107),
     eliminated(initGame.balls[12], Vec(55299, 2525), Vec(167, -1689), 2002),
     eliminated(initGame.balls[13], Vec(23775, 56941), Vec(-612, 1384), -11845),
     eliminated(initGame.balls[14], Vec(56225, 56941), Vec(612, 1384), 11845)
  >>

lateGame ==
  [initGame EXCEPT !.balls = lateBalls,
                   !.scores = [p1 |-> Living(lateBalls, 1), p2 |-> Living(lateBalls, 2)]]

----------------------------------------------------------------------------
(* usePhysics.ts *)

(* the calls of shoot the model takes, ballId and vector (in 1/Unit):
     1 (362, 362)    rolls ball 1 to rest just inside the lower edge, in a gap
     0 (1297, 2137)  sends ball 0 to that place, through the gap when it is free
     0 (2000, 1500)  sends ball 0 off the right wall and out
     99 (2500, 0)    drives ball 99 into ball 100 and on to the right wall
     1 (0, 0)        leaves ball 1 where it is
     50 (0, 0)       names no ball *)
Shots ==
  { <<1, Vec(362, 362)>>, <<0, Vec(1297, 2137)>>, <<0, Vec(2000, 1500)>>,
    <<99, Vec(2500, 0)>>, <<1, Vec(0, 0)>>, <<50, Vec(0, 0)>> }

(* `balls.find(b => b.id === ballId)`: the index of the ball, 0 when there is none *)
find(balls, ballId) ==
  IF \E k \in DOMAIN balls : balls[k].id = ballId
  THEN CHOOSE k \in DOMAIN balls :
         /\ balls[k].id = ballId
         /\ \A m \in DOMAIN balls : balls[m].id = ballId => k <= m
  ELSE 0

(* moving without the dead balls that still shrink *)
movingLivingOnly(balls) ==
  \E k \in DOMAIN balls :
    ~balls[k].isDead /\ (Abs(balls[k].vel.x) > 0 \/ Abs(balls[k].vel.y) > 0)

(* moving with >= for > *)
movingNonNegative(balls) ==
  \E k \in DOMAIN balls :
    \/ ~balls[k].isDead /\ (Abs(balls[k].vel.x) >= 0 \/ Abs(balls[k].vel.y) >= 0)
    \/ balls[k].isDead /\ ScalePositive(balls[k])

(* the continuation predicate of simulateStep *)
moving(balls) ==
  \E k \in DOMAIN balls :
    \/ ~balls[k].isDead /\ (Abs(balls[k].vel.x) > 0 \/ Abs(balls[k].vel.y) > 0)
    \/ balls[k].isDead /\ ScalePositive(balls[k])

(* the clients that call joinGame, by the id of their user: the user that has
   created the game and three others *)
Clients == {"creator", "a", "b", "c"}

(* the row createGame has inserted; player2_id "" for null *)
waitingRow ==
  [id |-> "game", player1_id |-> "creator", player2_id |-> "", status |-> "waiting",
   game_state |-> initGame]

(* the state of the hook of a client before joinGame: at is the place its call
   of joinGame has reached, game the row its select has returned; gameId ""
   and playerId 0 for null, gameState <<>> for a state not set by joinGame *)
NotJoined ==
  [at |-> "start", game |-> <<>>, gameId |-> "", playerId |-> 0, status |-> "idle",
   gameState |-> <<>>, error |-> ""]

(* the state after the effect of usePhysics has run *)
Init ==
  /\ stateRef = initGame
  /\ events = <<>>
  /\ isSimulating = FALSE
  /\ onSimulationComplete = 0
  /\ requestRef = 0
  /\ calls = 0
  /\ refused = {}
  /\ invoked = <<>>
  /\ lastArg = <<>>
  /\ replays = <<>>
  /\ gameState = stateRef
  /\ setCalls = <<>>
  /\ playerId = 0
  /\ status = "idle"
  /\ processedShots = {}
  /\ delivered = 0
  /\ hook = "usePhysics"
  /\ isProcessingShot = FALSE
  /\ pending = <<>>
  /\ row = waitingRow
  /\ joiners = [c \in Clients |-> NotJoined]

(* the React state after the calls of setGameState of a step: the last value
   set *)
published(old, sets) == IF sets = <<>> THEN old ELSE sets[Len(sets)]

(* shoot without the test of isSimulating *)
shootAnyTime(ballId, vector) ==
  /\ calls < MaxCalls
  /\ calls' = calls + 1
  /\ LET k == find(stateRef.balls, ballId)
     IN  IF k = 0
         THEN /\ refused' = refused \cup {calls + 1}
              /\ setCalls' = <<>>
              /\ UNCHANGED <<stateRef, isSimulating, onSimulationComplete, requestRef>>
         ELSE /\ stateRef' = [stateRef EXCEPT !.balls[k].vel = vector]
              /\ setCalls' = <<stateRef'>>
              /\ UNCHANGED refused
              /\ isSimulating' = TRUE
              /\ onSimulationComplete' = calls + 1
              /\ requestRef' = requestRef + 1
  /\ gameState' = published(gameState, setCalls')
  /\ UNCHANGED <<events, invoked, lastArg, replays, online,
                 hook, isProcessingShot, pending, lobby>>

(* shoot(ballId, vector, _power, onComplete) on the refs of usePhysics:
   onComplete is the callback of the call, named by the number of the call;
   _power is not read *)
shootRefs(ballId, vector) ==
  /\ calls < MaxCalls
  /\ calls' = calls + 1
  /\ LET k == find(stateRef.balls, ballId)
     IN  IF isSimulating \/ k = 0
         THEN /\ refused' = refused \cup {calls + 1}
              /\ UNCHANGED <<stateRef, isSimulating, onSimulationComplete, requestRef>>
         ELSE /\ stateRef' = [stateRef EXCEPT !.balls[k].vel = vector]
              /\ UNCHANGED refused
              /\ isSimulating' = TRUE
              /\ onSimulationComplete' = calls + 1
              /\ requestRef' = requestRef + 1
  /\ UNCHANGED <<events, invoked, lastArg>>

(* `setGameState({ ...stateRef.current })` of the call of shoot a step makes:
   the values it passes to setGameState *)
shootSets == IF calls' \in refused' THEN <<>> ELSE <<stateRef'>>

(* shoot called by a caller of usePhysics *)
shoot(ballId, vector) ==
  /\ shootRefs(ballId, vector)
  /\ setCalls' = shootSets
  /\ gameState' = published(gameState, setCalls')
  /\ UNCHANGED <<replays, online, hook, isProcessingShot, pending, lobby>>

(* the callback the n-th call of shoot has passed: "replay" for the closure of
   the subscription handler, "local" for that of useLocalGame.onShoot, "own"
   for that of useSupabaseGame.onShoot, "caller" for the callback of another
   caller of usePhysics *)
closure(n) ==
  IF \E r \in 1..Len(replays) : replays[r].call = n THEN "replay"
  ELSE IF hook = "useLocalGame" THEN "local"
  ELSE IF hook = "useSupabaseGame" THEN "own"
  ELSE "caller"

(* what the callback of the n-th call of shoot passes to setGameState when it
   is invoked with finalState: nothing for the callback of a caller of
   usePhysics; for the closure of the subscription handler, finalState with the
   turn `playerId === 1 ? 2 : 1` if finalState has another turn; for the
   closure of useLocalGame, finalState with the turn `finalState.turn === 1 ?
   2 : 1`; for the closure of useSupabaseGame.onShoot, finalState with the
   turn `playerId === 1 ? 2 : 1` *)
onComplete(n, finalState) ==
  LET nextTurn == IF playerId = 1 THEN 2 ELSE 1
  IN  IF closure(n) = "replay"
      THEN IF finalState.turn # nextTurn
           THEN <<[finalState EXCEPT !.turn = nextTurn]>>
           ELSE <<>>
      ELSE IF closure(n) = "local"
      THEN <<[finalState EXCEPT !.turn = IF finalState.turn = 1 THEN 2 ELSE 1]>>
      ELSE IF closure(n) = "own"
      THEN <<[finalState EXCEPT !.turn = nextTurn]>>
      ELSE <<>>

(* simulateStep, run by requestAnimationFrame: requestRef counts the callbacks
   that requestAnimationFrame holds.  The closure of useSupabaseGame.onShoot
   goes on to upload the state and waits for the answer. *)
simulateStep ==
  /\ requestRef > 0
  /\ \E res \in {update(stateRef)} :
       LET newState == res.state
       IN  /\ stateRef' = newState
           /\ events' = res.events
           /\ IF moving(newState.balls)
              THEN /\ requestRef' = requestRef
                   /\ setCalls' = <<newState>>
                   /\ UNCHANGED <<isSimulating, onSimulationComplete, invoked,
                                  lastArg, pending>>
              ELSE /\ requestRef' = requestRef - 1
                   /\ isSimulating' = FALSE
                   /\ IF onSimulationComplete # 0
                      THEN /\ invoked' = Append(invoked, onSimulationComplete)
                           /\ lastArg' = <<newState>>
                           /\ onSimulationComplete' = 0
                           /\ setCalls' = <<newState>> \o
                                onComplete(onSimulationComplete, newState)
                           /\ pending' = IF closure(onSimulationComplete) = "own"
                                         THEN <<"upload">> ELSE pending
                      ELSE /\ setCalls' = <<newState>>
                           /\ UNCHANGED <<onSimulationComplete, invoked, lastArg,
                                          pending>>
  /\ gameState' = published(gameState, setCalls')
  /\ UNCHANGED <<calls, refused, replays, online, hook, isProcessingShot, lobby>>

Shoot == \E shot \in Shots : shoot(shot[1], shot[2])

Next == Shoot \/ simulateStep

(* a match from its start *)
Spec == Init /\ [][Next]_vars

(* the frames of requestAnimationFrame keep coming *)
FairSpec == Spec /\ WF_vars(simulateStep)

(* a match from the late position *)
InitLate ==
  /\ stateRef = lateGame
  /\ events = <<>>
  /\ isSimulating = FALSE
  /\ onSimulationComplete = 0
  /\ requestRef = 0
  /\ calls = 0
  /\ refused = {}
  /\ invoked = <<>>
  /\ lastArg = <<>>
  /\ replays = <<>>
  /\ gameState = stateRef
  /\ setCalls = <<>>
  /\ playerId = 0
  /\ status = "idle"
  /\ processedShots = {}
  /\ delivered = 0
  /\ hook = "usePhysics"
  /\ isProcessingShot = FALSE
  /\ pending = <<>>
  /\ row = waitingRow
  /\ joiners = [c \in Clients |-> NotJoined]

SpecLate == InitLate /\ [][Next]_vars

----------------------------------------------------------------------------
(* useLocalGame: usePhysics with a callback that passes the turn on *)

(* the state after the effect of usePhysics has run in useLocalGame *)
InitLocal ==
  /\ stateRef = initGame
  /\ events = <<>>
  /\ isSimulating = FALSE
  /\ onSimulationComplete = 0
  /\ requestRef = 0
  /\ calls = 0
  /\ refused = {}
  /\ invoked = <<>>
  /\ lastArg = <<>>
  /\ replays = <<>>
  /\ gameState = stateRef
  /\ setCalls = <<>>
  /\ playerId = 0
  /\ status = "idle"
  /\ processedShots = {}
  /\ delivered = 0
  /\ hook = "useLocalGame"
  /\ isProcessingShot = FALSE
  /\ pending = <<>>
  /\ row = waitingRow
  /\ joiners = [c \in Clients |-> NotJoined]

(* useLocalGame.onShoot: `shoot(ballId, vector, power, (finalState) => ...)` *)
localOnShoot(ballId, vector) == shoot(ballId, vector)

LocalShoot == \E shot \in Shots : localOnShoot(shot[1], shot[2])

NextLocal == LocalShoot \/ simulateStep

SpecLocal == InitLocal /\ [][NextLocal]_vars

----------------------------------------------------------------------------
(* useSupabaseGame: the handler of the subscription to the row of the game,
   for a peer that has created or joined a game.  An optional field of a
   payload is a sequence of at most one value, and an absent status is "". *)

ShotVector(ballId, x, y, power, timestamp, shooterId) ==
  [ballId |-> ballId, x |-> x, y |-> y, power |-> power,
   timestamp |-> timestamp, shooterId |-> shooterId]

Payload(st, shot, state) ==
  [status |-> st, last_shot_vector |-> shot, game_state |-> state]

(* the state a peer uploads after its shot from the initial position: the turn
   passed on *)
remoteState == [initGame EXCEPT !.turn = 2]

(* the state of a match that player 1 has won from the late position *)
finishedState ==
  [lateGame EXCEPT
     !.balls[2] = eliminated(initGame.balls[2], Vec(71687, 56403), Vec(356, 356), 18820),
     !.scores = [p1 |-> 1, p2 |-> 0],
     !.status = "finished",
     !.winner = 1]

(* the payloads the handler is called with, lengths and speeds in 1/Unit:
     a game_state alone
     a shot of player 1 alone, on ball 0 with vector (10, 0), timestamp 1
     the row after that shot and the upload that follows it
     the row after a shot of player 2, on ball 1 with vector (0, 10), timestamp 2
     the row of a finished match, with a shot of player 1, timestamp 3 *)
Payloads ==
  { Payload("", <<>>, <<remoteState>>),
    Payload("", <<ShotVector(0, 10, 0, 10, 1, 1)>>, <<>>),
    Payload("playing", <<ShotVector(0, 10, 0, 10, 1, 1)>>, <<remoteState>>),
    Payload("playing", <<ShotVector(1, 0, 10, 10, 2, 2)>>, <<initGame>>),
    Payload("finished", <<ShotVector(0, 0, -10, 10, 3, 1)>>, <<finishedState>>) }

(* the calls of shoot that are sure to come: that of a call of onShoot which
   waits for the answer to its broadcast *)
Awaited == IF pending # <<>> /\ pending[1] = "broadcast" THEN 1 ELSE 0

(* toReplay with the test of the shooter turned round: the peer's own shots *)
toReplayOwnShots(p) ==
  /\ p.last_shot_vector # <<>>
  /\ p.last_shot_vector[1].timestamp # 0
  /\ p.last_shot_vector[1].timestamp \notin processedShots
  /\ p.last_shot_vector[1].shooterId = playerId

(* toReplay without the look into processedShotsRef *)
toReplayAgain(p) ==
  /\ p.last_shot_vector # <<>>
  /\ p.last_shot_vector[1].timestamp # 0
  /\ p.last_shot_vector[1].shooterId # playerId

(* `timestamp && !processedShotsRef.current.has(timestamp) && shooterId !==
   playerId`, for a payload with a last_shot_vector *)
toReplay(p) ==
  /\ p.last_shot_vector # <<>>
  /\ p.last_shot_vector[1].timestamp # 0
  /\ p.last_shot_vector[1].timestamp \notin processedShots
  /\ p.last_shot_vector[1].shooterId # playerId

(* `!isSimulating.current` in the handler.  The isSimulating of the handler is
   the field of the object usePhysics returns, `isSimulating:
   isSimulating.current`, a boolean; a boolean has no property current, so
   `isSimulating.current` is undefined and its negation is true *)
notSimulating == TRUE

(* `if (newData.game_state && !isSimulating.current) setGameState(...)`: the
   values passed to setGameState *)
sync(p) == IF notSimulating THEN p.game_state ELSE <<>>

(* the handler, called with the payload p *)
handler(p) ==
  /\ delivered < MaxDeliveries
  /\ delivered' = delivered + 1
  /\ IF p.status # "" /\ p.status # status /\ p.status = "finished"
     THEN \* `setStatus('finished'); setGameState(newData.game_state); return;`
          /\ status' = "finished"
          /\ setCalls' = p.game_state
          /\ UNCHANGED <<stateRef, events, isSimulating, onSimulationComplete,
                         requestRef, calls, refused, invoked, lastArg, replays,
                         processedShots>>
     ELSE /\ status' = IF p.status = "playing" /\ status = "waiting"
                        THEN "playing" ELSE status
          /\ IF toReplay(p)
             THEN LET shot == p.last_shot_vector[1]
                  IN  /\ calls + Awaited < MaxCalls
                      /\ processedShots' = processedShots \cup {shot.timestamp}
                      /\ shootRefs(shot.ballId, Vec(shot.x, shot.y))
                      /\ replays' = Append(replays,
                                           [call |-> calls + 1, ballId |-> shot.ballId,
                                            vector |-> Vec(shot.x, shot.y),
                                            power |-> shot.power])
                      /\ setCalls' = shootSets \o sync(p)
             ELSE /\ setCalls' = sync(p)
                  /\ UNCHANGED <<stateRef, events, isSimulating, onSimulationComplete,
                                 requestRef, calls, refused, invoked, lastArg,
                                 replays, processedShots>>
  /\ gameState' = published(gameState, setCalls')
  /\ UNCHANGED <<playerId, hook, isProcessingShot, pending, lobby>>

Receive == \E p \in Payloads : handler(p)

(* the state after createGame (player 1, waiting) or joinGame (player 2,
   playing, with the game_state of the row, which is the initial state) *)
InitOnline ==
  /\ stateRef = initGame
  /\ events = <<>>
  /\ isSimulating = FALSE
  /\ onSimulationComplete = 0
  /\ requestRef = 0
  /\ calls = 0
  /\ refused = {}
  /\ invoked = <<>>
  /\ lastArg = <<>>
  /\ replays = <<>>
  /\ gameState = initGame
  /\ setCalls = <<>>
  /\ playerId \in {1, 2}
  /\ status = IF playerId = 1 THEN "waiting" ELSE "playing"
  /\ processedShots = {}
  /\ delivered = 0
  /\ hook = "useSupabaseGame"
  /\ isProcessingShot = FALSE
  /\ pending = <<>>
  /\ row = waitingRow
  /\ joiners = [c \in Clients |-> NotJoined]

(* the shots the local player makes: one of a ball of the match and one of a
   ball that does not exist *)
OwnShots == { <<0, Vec(0, 10)>>, <<77, Vec(10, 0)>> }

(* useSupabaseGame.onShoot up to its first await: the three tests,
   setIsProcessingShot(true) and the update of last_shot_vector sent *)
onShoot(ballId, vector) ==
  /\ calls < MaxCalls
  /\ playerId # 0
  /\ gameState.turn = playerId
  /\ ~isProcessingShot
  /\ isProcessingShot' = TRUE
  /\ pending' = <<"broadcast", ballId, vector>>
  /\ setCalls' = <<>>
  /\ UNCHANGED <<stateRef, events, isSimulating, onSimulationComplete, requestRef,
                 calls, refused, invoked, lastArg, replays, gameState, online,
                 hook, lobby>>

OnShoot == \E shot \in OwnShots : onShoot(shot[1], shot[2])

(* onShoot from the answer to its update on: `shoot(ballId, vector, power,
   async (finalState) => ...)`, after which the call of onShoot is over *)
broadcastDone ==
  /\ pending # <<>>
  /\ pending[1] = "broadcast"
  /\ shootRefs(pending[2], pending[3])
  /\ setCalls' = shootSets
  /\ gameState' = published(gameState, setCalls')
  /\ pending' = <<>>
  /\ UNCHANGED <<replays, online, hook, isProcessingShot, lobby>>

(* onShoot when its update throws: the catch, `setIsProcessingShot(false)` *)
broadcastFailed ==
  /\ pending # <<>>
  /\ pending[1] = "broadcast"
  /\ pending' = <<>>
  /\ isProcessingShot' = FALSE
  /\ setCalls' = <<>>
  /\ UNCHANGED <<stateRef, events, isSimulating, onSimulationComplete, requestRef,
                 calls, refused, invoked, lastArg, replays, gameState, online,
                 hook, lobby>>

(* the closure of onShoot from the answer to its upload on:
   `setIsProcessingShot(false)`, with or without an error *)
uploadDone ==
  /\ pending = <<"upload">>
  /\ pending' = <<>>
  /\ isProcessingShot' = FALSE
  /\ setCalls' = <<>>
  /\ UNCHANGED <<stateRef, events, isSimulating, onSimulationComplete, requestRef,
                 calls, refused, invoked, lastArg, replays, gameState, online,
                 hook, lobby>>

NextOnline ==
  Receive \/ simulateStep \/ OnShoot \/ broadcastDone \/ broadcastFailed \/ uploadDone

SpecOnline == InitOnline /\ [][NextOnline]_vars

(* the frames of requestAnimationFrame keep coming and the requests to the
   server are answered *)
FairOnline ==
  /\ SpecOnline
  /\ WF_vars(simulateStep)
  /\ WF_vars(broadcastDone \/ broadcastFailed)
  /\ WF_vars(uploadDone)

----------------------------------------------------------------------------
(* useSupabaseGame.joinGame, called by several clients for the row of one
   game, and the policy of the table for updates *)

(* the policy "Players can update games": the rows a user may update *)
mayUpdate(user) ==
  \/ user = row.player1_id
  \/ user = row.player2_id
  \/ row.player2_id = ""

(* joinGame up to the answer to its select: `if (game.status !== 'waiting')
   throw new Error('Game is not available')`, caught by `setError(e.message)` *)
joinSelect(c) ==
  /\ joiners[c].at = "start"
  /\ joiners' = [joiners EXCEPT ![c] =
                   IF row.status # "waiting"
                   THEN [@ EXCEPT !.at = "end", !.error = "Game is not available"]
                   ELSE [@ EXCEPT !.at = "update", !.game = <<row>>]]
  /\ UNCHANGED <<stateRef, events, isSimulating, onSimulationComplete, requestRef,
                 calls, refused, invoked, lastArg, replays, gameState, setCalls,
                 online, hook, isProcessingShot, pending, row>>

(* joinGame from its update on.  The update changes the row if the policy lets
   the user update it and changes no row otherwise, which is no error; then
   `setGameId(id); setPlayerId(2); setStatus('playing');
   setGameState(game.game_state)` *)
joinUpdate(c) ==
  /\ joiners[c].at = "update"
  /\ row' = IF mayUpdate(c)
            THEN [row EXCEPT !.player2_id = c, !.status = "playing"]
            ELSE row
  /\ joiners' = [joiners EXCEPT ![c] =
                   [@ EXCEPT !.at = "end", !.gameId = joiners[c].game[1].id, !.playerId = 2,
                             !.status = "playing",
                             !.gameState = <<joiners[c].game[1].game_state>>]]
  /\ UNCHANGED <<stateRef, events, isSimulating, onSimulationComplete, requestRef,
                 calls, refused, invoked, lastArg, replays, gameState, setCalls,
                 online, hook, isProcessingShot, pending>>

JoinSelect == \E c \in Clients : joinSelect(c)

JoinUpdate == \E c \in Clients : joinUpdate(c)

NextJoin == JoinSelect \/ JoinUpdate

(* a waiting game and clients that join it, in any interleaving *)
SpecJoin == Init /\ [][NextJoin]_vars

----------------------------------------------------------------------------
(* The collision functions on their own: checkBallCollisions and
   checkWallCollision applied to positions of a match in which the balls 99
   and 100 (the 13th and 14th of the array) are placed and moving as follows
   and the twelve balls of the ring have been eliminated: ten as in the late
   position above, and the balls 0 and 1 where the shots 0 (2000, 1500) and
   1 (362, 362) from that position take them.  Both functions pass over an
   eliminated ball. *)

pairBalls ==
  [k \in 1..Len(initGame.balls) |->
     IF k = 1
     THEN eliminated(initGame.balls[1], Vec(66354, 56322), Vec(-237, 445), 12350)
     ELSE IF k = 2
     THEN eliminated(initGame.balls[2], Vec(71687, 56403), Vec(356, 356), 18820)
     ELSE IF k <= count THEN lateBalls[k]
     ELSE initGame.balls[k]]

pairGame ==
  [initGame EXCEPT !.balls = pairBalls,
                   !.scores = [p1 |-> Living(pairBalls, 1), p2 |-> Living(pairBalls, 2)]]

(* the edges of the left wall and of the upper wall that face the arena *)
leftWallEdge == walls[1].pos.x - walls[1].w \div 2 + walls[1].w

leftWallEnd == walls[1].pos.y - walls[1].h \div 2 + walls[1].h

upperWallEdge == walls[3].pos.y - walls[3].h \div 2 + walls[3].h

(* where ball 99 is put, in 1/Unit:
     the center of the arena, away from every wall
     20 px off the left wall, on its long side
     just beyond one radius off the left wall
     off the lower corner of the left wall, as far along x as along y
     off the same corner, farther along x than along y
     inside the left wall, on its axis
     exactly one radius below the upper wall *)
Places ==
  { Vec(bounds.cx, bounds.cy),
    Vec(leftWallEdge + 2000, bounds.cy),
    Vec(leftWallEdge + radius + 1, bounds.cy),
    Vec(leftWallEdge + 1500, leftWallEnd + 1500),
    Vec(leftWallEdge + 1800, leftWallEnd + 1000),
    Vec(walls[1].pos.x, bounds.cy),
    Vec(bounds.cx, upperWallEdge + radius) }

(* where ball 100 is put, from ball 99: overlapping it along x, within the
   extra pixel of the dynamic test along x, overlapping it on a diagonal,
   within the extra pixel on a diagonal, on top of it, and apart from it *)
Offsets ==
  { Vec(5000, 0), Vec(5300, 0), Vec(3000, -4000), Vec(-3200, -4200),
    Vec(0, 0), Vec(6000, 0) }

(* the velocities of ball 99 and of ball 100 *)
Velocities == { Vec(-1500, 0), Vec(0, -1200), Vec(900, -1200), Vec(-800, 600) }

OtherVelocities == { Vec(0, 0), Vec(-2000, 0), Vec(1000, 500) }

InitCollide ==
  /\ \E place \in Places, offset \in Offsets,
        v1 \in Velocities, v2 \in OtherVelocities :
       stateRef = [pairGame EXCEPT !.balls[13].pos = place,
                                   !.balls[13].vel = v1,
                                   !.balls[14].pos = add(place, offset),
                                   !.balls[14].vel = v2]
  /\ events = <<>>
  /\ isSimulating = FALSE
  /\ onSimulationComplete = 0
  /\ requestRef = 0
  /\ calls = 0
  /\ refused = {}
  /\ invoked = <<>>
  /\ lastArg = <<>>
  /\ replays = <<>>
  /\ gameState = stateRef
  /\ setCalls = <<>>
  /\ playerId = 0
  /\ status = "idle"
  /\ processedShots = {}
  /\ delivered = 0
  /\ hook = "usePhysics"
  /\ isProcessingShot = FALSE
  /\ pending = <<>>
  /\ row = waitingRow
  /\ joiners = [c \in Clients |-> NotJoined]

(* `this.checkBallCollisions(newState.balls)` *)
collide ==
  /\ stateRef' = [stateRef EXCEPT !.balls = checkBallCollisions(stateRef.balls)]
  /\ UNCHANGED <<events, isSimulating, onSimulationComplete, requestRef,
                 calls, refused, invoked, lastArg, replays, gameState, setCalls,
                 online, hook, isProcessingShot, pending, lobby>>

(* `this.checkWallCollision(b, w)` for the k-th ball and the w-th wall: the
   function changes the ball in place and pushes onto this.events *)
bounce(k, w) ==
  /\ \E res \in {checkWallCollision(stateRef.balls[k], walls[w])} :
       /\ stateRef' = [stateRef EXCEPT !.balls[k] = res.ball]
       /\ events' = events \o res.events
  /\ UNCHANGED <<isSimulating, onSimulationComplete, requestRef,
                 calls, refused, invoked, lastArg, replays, gameState, setCalls,
                 online, hook, isProcessingShot, pending, lobby>>

Bounce == \E k \in {13, 14}, w \in DOMAIN walls : bounce(k, w)

NextCollide == collide \/ Bounce

SpecCollide == InitCollide /\ [][NextCollide]_vars

----------------------------------------------------------------------------
(* The claims *)

Balls == DOMAIN stateRef.balls

LivingOf(player) ==
  {k \in Balls : stateRef.balls[k].player = player /\ ~stateRef.balls[k].isDead}

Splashed == \E e \in 1..Len(events) : events[e].type = "splash"

(* C1: in the initial state and after every tick, scores.p1 is the number of
   balls of player 1 with isDead false and scores.p2 that of player 2 *)
C1_ScoreInvariant ==
  /\ stateRef.scores.p1 = Cardinality(LivingOf(1))
  /\ stateRef.scores.p2 = Cardinality(LivingOf(2))

(* a tick has eliminated a ball and the scores have followed *)
C1_Witness ==
  /\ Splashed
  /\ stateRef.scores.p1 + stateRef.scores.p2 < Len(stateRef.balls)

(* C2: after every tick no ball with isDead false has its center outside the
   arena rectangle *)
C2_Containment ==
  \A k \in Balls : ~stateRef.balls[k].isDead => ~OutOfBounds(stateRef.balls[k].pos)

(* the continuation predicate as the specification states it: some living
   ball has a nonzero velocity on an axis, or some dead ball has scale > 0 *)
StillGoing(balls) ==
  \E k \in DOMAIN balls :
    IF balls[k].isDead THEN balls[k].scale <= LastPositiveScale
    ELSE balls[k].vel.x # 0 \/ balls[k].vel.y # 0

(* a step of the model that is a call of shoot, and one that is a tick *)
IsCall == calls' = calls + 1

IsTick ==
  /\ calls' = calls /\ delivered' = delivered /\ vars' # vars
  /\ isProcessingShot' = isProcessingShot /\ lobby' = lobby

(* C3: once a shot is accepted the run loop reaches a tick after which the
   continuation predicate is false, and isSimulating is false from that tick:
   no simulation ticks forever *)
C3_Termination ==
  (isSimulating \/ requestRef > 0)
    ~> (~isSimulating /\ requestRef = 0 /\ ~StillGoing(stateRef.balls))

(* a simulation that eliminated a ball has come to rest *)
C3_Witness ==
  /\ ~isSimulating
  /\ invoked # <<>>
  /\ \E k \in Balls : stateRef.balls[k].isDead

(* C4: a call of shoot while isSimulating is true changes no ball, schedules
   no second loop and leaves the pending callback in place, and the callback
   it passed is never invoked *)
C4_OneSimulation ==
  /\ [][(isSimulating /\ IsCall) =>
          /\ stateRef' = stateRef
          /\ requestRef' = requestRef
          /\ onSimulationComplete' = onSimulationComplete
          /\ isSimulating'
          /\ invoked' = invoked]_vars
  /\ [](requestRef <= 1)
  /\ [](\A i \in 1..Len(invoked) : invoked[i] \notin refused)

(* the last call of shoot came during the simulation of an earlier one, which
   still runs *)
C4_Witness ==
  /\ isSimulating
  /\ calls \in refused
  /\ onSimulationComplete # 0
  /\ onSimulationComplete < calls

(* a call of shoot whose ballId names no ball, or a ball with isDead true *)
InvalidTarget(ballId) ==
  \/ \A k \in Balls : stateRef.balls[k].id # ballId
  \/ \E k \in Balls : stateRef.balls[k].id = ballId /\ stateRef.balls[k].isDead

(* C5: a call of shoot whose ballId matches no ball, or a ball whose isDead is
   true, changes no velocity, leaves isSimulating false and starts no loop *)
C5_InvalidShotIsNoOp ==
  [][\A shot \in Shots :
       (~isSimulating /\ InvalidTarget(shot[1]) /\ shoot(shot[1], shot[2])) =>
          /\ stateRef' = stateRef
          /\ ~isSimulating'
          /\ requestRef' = requestRef]_vars

(* C6: the callback of an accepted shot is invoked exactly once, with the state
   the last tick returned, at the first tick after which the continuation
   predicate is false, and never while it is true: the callback of a call that
   was not refused is pending or has been invoked, never twice; it is invoked
   only by such a tick, and by the first one; and a pending callback does not
   stay pending *)
C6_CompletionOnce ==
  /\ [](\A i, j \in 1..Len(invoked) : invoked[i] = invoked[j] => i = j)
  /\ [](\A c \in 1..calls :
         \/ c \in refused
         \/ c = onSimulationComplete
         \/ \E i \in 1..Len(invoked) : invoked[i] = c)
  /\ [][invoked' # invoked =>
          /\ IsTick
          /\ onSimulationComplete # 0
          /\ invoked' = Append(invoked, onSimulationComplete)
          /\ lastArg' = <<stateRef'>>
          /\ ~StillGoing(stateRef'.balls)]_vars
  /\ [][(IsTick /\ onSimulationComplete # 0 /\ ~StillGoing(stateRef'.balls)) =>
          invoked' = Append(invoked, onSimulationComplete)]_vars
  /\ (onSimulationComplete # 0) ~> (onSimulationComplete = 0)

(* two shots have completed, each callback invoked with the state at rest, and
   a ball has been eliminated and has shrunk away *)
C6_Witness ==
  /\ Len(invoked) = 2
  /\ onSimulationComplete = 0
  /\ lastArg = <<stateRef>>
  /\ \E k \in Balls : stateRef.balls[k].isDead /\ ~ScalePositive(stateRef.balls[k])

(* C7: once a ball's isDead is true it is true in every later state *)
C7_MonotonicDeath ==
  [][\A k \in Balls : stateRef.balls[k].isDead => stateRef'.balls[k].isDead]_vars

(* a ball eliminated by one shot is still dead at rest after the next *)
C7_Witness ==
  /\ Len(invoked) = 2
  /\ ~isSimulating
  /\ \E k \in Balls : stateRef.balls[k].isDead /\ ~ScalePositive(stateRef.balls[k])

(* C8: status only moves forward: finished stays finished, and playing never
   becomes waiting *)
C8_StatusForward ==
  [][/\ stateRef.status = "finished" => stateRef'.status = "finished"
     /\ stateRef.status = "playing" => stateRef'.status \in {"playing", "finished"}]_vars

(* the match is finished and the loop still ticks *)
C8_Witness ==
  /\ stateRef.status = "finished"
  /\ isSimulating
  /\ Cardinality(LivingOf(1)) + Cardinality(LivingOf(2)) = 0

(* C9, as claimed: status is finished and winner is set if and only if some
   score is 0; score p1 = 0 implies winner 2 and score p2 = 0 implies winner 1 *)
C9_WinnerOpposesZero ==
  /\ (stateRef.status = "finished" /\ stateRef.winner # 0)
       <=> (stateRef.scores.p1 = 0 \/ stateRef.scores.p2 = 0)
  /\ stateRef.scores.p1 = 0 => stateRef.winner = 2
  /\ stateRef.scores.p2 = 0 => stateRef.winner = 1

(* C9, amended: score p2 = 0 implies winner 1 only while player 1 has a
   living ball; when both scores are 0 the winner is 2 *)
C9_WinnerAmended ==
  /\ (stateRef.status = "finished" /\ stateRef.winner # 0)
       <=> (stateRef.scores.p1 = 0 \/ stateRef.scores.p2 = 0)
  /\ stateRef.scores.p1 = 0 => stateRef.winner = 2
  /\ (stateRef.scores.p2 = 0 /\ stateRef.scores.p1 > 0) => stateRef.winner = 1

(* both factions have no living ball *)
C9_Witness ==
  /\ stateRef.scores.p1 = 0
  /\ stateRef.scores.p2 = 0
  /\ stateRef.winner = 2

(* the score of a player in a state, and the splash events of a tick that
   carry the player *)
ScoreOf(state, player) == IF player = 1 THEN state.scores.p1 ELSE state.scores.p2

SplashesOf(evs, player) ==
  Cardinality({e \in 1..Len(evs) : evs[e].type = "splash" /\ evs[e].data = player})

(* C11: in every tick, for each player, the balls of the player that change from
   alive to dead are as many as the splash events of the tick that carry the
   player and as the decrease of the player's score; and a living ball whose
   center is outside the arena after integration and wall resolution is dead
   in the state returned *)
C11_EliminationAccounted ==
  [][IsTick =>
       /\ \A player \in {1, 2} :
            LET died == {k \in Balls : /\ stateRef.balls[k].player = player
                                       /\ ~stateRef.balls[k].isDead
                                       /\ stateRef'.balls[k].isDead}
            IN  /\ Cardinality(died) = SplashesOf(events', player)
                /\ Cardinality(died) = ScoreOf(stateRef, player) - ScoreOf(stateRef', player)
       /\ \A k \in Balls :
            (/\ ~stateRef.balls[k].isDead
             /\ OutOfBounds(checkWalls([ball |-> integrate(stateRef.balls[k]),
                                        events |-> <<>>], 1).ball.pos))
              => stateRef'.balls[k].isDead]_vars

(* the last tick eliminated a ball of player 1: one splash, one point less *)
C11_Witness ==
  /\ SplashesOf(events, 1) = 1
  /\ stateRef.scores.p1 = Cardinality(LivingOf(1))
  /\ stateRef.scores.p1 < 7
  /\ isSimulating

(* the point of a wall's rectangle nearest to a position, and a ball in
   contact with a wall: the distance from its center to that point is at most
   its radius *)
Clamp(a, lo, hi) == IF a < lo THEN lo ELSE IF a > hi THEN hi ELSE a

TouchesWall(ball, wall) ==
  LET dx == ball.pos.x - Clamp(ball.pos.x, wall.pos.x - wall.w \div 2,
                               wall.pos.x - wall.w \div 2 + wall.w)
      dy == ball.pos.y - Clamp(ball.pos.y, wall.pos.y - wall.h \div 2,
                               wall.pos.y - wall.h \div 2 + wall.h)
  IN  Abs(dx) <= ball.r /\ Abs(dy) <= ball.r /\ dx * dx + dy * dy <= ball.r * ball.r

(* a state at rest, with no two living balls overlapping and no living ball in
   contact with a wall *)
Quiet(state) ==
  /\ ~StillGoing(state.balls)
  /\ \A i, j \in DOMAIN state.balls :
       (i < j /\ ~state.balls[i].isDead /\ ~state.balls[j].isDead) =>
         LET d == sub(state.balls[i].pos, state.balls[j].pos)
             lim == state.balls[i].r + state.balls[j].r
         IN  Abs(d.x) >= lim \/ Abs(d.y) >= lim \/ magSq(d) >= lim * lim
  /\ \A k \in DOMAIN state.balls : \A w \in DOMAIN walls :
       ~state.balls[k].isDead => ~TouchesWall(state.balls[k], walls[w])

SameGame(s, t) ==
  /\ DOMAIN s.balls = DOMAIN t.balls
  /\ \A k \in DOMAIN s.balls :
       /\ s.balls[k].pos = t.balls[k].pos
       /\ s.balls[k].vel = t.balls[k].vel
       /\ s.balls[k].isDead = t.balls[k].isDead
  /\ s.scores = t.scores
  /\ s.status = t.status
  /\ s.turn = t.turn

(* C12: a shot with vector (0, 0) on a living ball, from a state at rest with no
   overlap and no contact with a wall, is accepted and leaves the state at
   rest; the one tick that follows, and it does follow, is the last of the
   simulation, it invokes the callback, and the state it returns has the positions, velocities,
   isDead flags, scores, status and turn of the state before the shot *)
C12_ZeroShotOneTick ==
  /\ [][\A shot \in Shots :
         (/\ shot[2] = Vec(0, 0)
          /\ ~InvalidTarget(shot[1])
          /\ ~isSimulating
          /\ Quiet(stateRef)
          /\ shoot(shot[1], shot[2])) =>
            /\ isSimulating'
            /\ requestRef' = 1
            /\ onSimulationComplete' = calls'
            /\ Quiet(stateRef')
            /\ SameGame(stateRef, stateRef')]_vars
  /\ [][(IsTick /\ isSimulating /\ Quiet(stateRef)) =>
          /\ ~isSimulating'
          /\ requestRef' = 0
          /\ invoked' = Append(invoked, onSimulationComplete)
          /\ lastArg' = <<stateRef'>>
          /\ SameGame(stateRef, stateRef')]_vars
  /\ (isSimulating /\ Quiet(stateRef)) ~> ~isSimulating

(* the shot with vector (0, 0) on the living ball 1 has completed, as the first
   shot of the match: nothing has moved *)
C12_Witness ==
  /\ invoked = <<1>>
  /\ ~isSimulating
  /\ SameGame(stateRef, initGame)

(* C16: the state initGame returns, which is the state before the first call
   of shoot, has exactly 14 balls with pairwise distinct ids, 7 living balls
   of player 1 and 7 of player 2, scores 7 and 7, status playing, turn 1, no
   winner, and every ball at zero velocity, alive, with scale 1 *)
C16_InitialState ==
  calls = 0 =>
    /\ stateRef = initGame
    /\ Len(stateRef.balls) = 14
    /\ \A i, j \in Balls : stateRef.balls[i].id = stateRef.balls[j].id => i = j
    /\ Cardinality(LivingOf(1)) = 7
    /\ Cardinality(LivingOf(2)) = 7
    /\ stateRef.scores = [p1 |-> 7, p2 |-> 7]
    /\ stateRef.status = "playing"
    /\ stateRef.turn = 1
    /\ stateRef.winner = 0
    /\ \A k \in Balls :
         /\ stateRef.balls[k].vel = Vec(0, 0)
         /\ ~stateRef.balls[k].isDead
         /\ stateRef.balls[k].scale = 0

(* the state before the first call of shoot *)
C16_Witness ==
  /\ calls = 0
  /\ invoked = <<>>
  /\ stateRef.balls[13].id = 99
  /\ stateRef.balls[14].id = 100

(* the win events among the events of a tick *)
WinsOf(evs) == Cardinality({e \in 1..Len(evs) : evs[e].type = "win"})

(* C18: a tick emits a win event only if after it the score of player 2 is 0
   and the score of player 1 is greater than 0; a tick after which the score of
   player 1 is 0 emits no win event, and leaves status finished and winner 2 *)
C18_WinOneDirection ==
  [][IsTick =>
       /\ WinsOf(events') > 0 =>
            stateRef'.scores.p2 = 0 /\ stateRef'.scores.p1 > 0
       /\ stateRef'.scores.p1 = 0 =>
            /\ WinsOf(events') = 0
            /\ stateRef'.status = "finished"
            /\ stateRef'.winner = 2]_vars

(* a tick has emitted the win event for player 1 *)
C18_Witness ==
  /\ WinsOf(events) = 1
  /\ stateRef.scores.p2 = 0
  /\ stateRef.scores.p1 > 0
  /\ stateRef.winner = 1

(* C19, as claimed: a tick emits a win event only if it changes status from
   playing to finished *)
C19_WinEndsMatch ==
  [][(IsTick /\ WinsOf(events') > 0) =>
       (stateRef.status = "playing" /\ stateRef'.status = "finished")]_vars

(* the speed of b1 relative to b2 along the line of centers d, as
   checkBallCollisions computes it: 0 when the centers coincide *)
SpeedAlong(vel1, vel2, d) ==
  IF mag(d) = 0 THEN 0 ELSE Trunc(dot(sub(vel1, vel2), d), mag(d))

(* the error, in 1/Unit per tick, that the truncations of an impulse add up to *)
SpeedTolerance == 6

(* the axis-aligned normal checkWallCollision reflects about *)
WallNormal(ball, wall) ==
  LET dx == ball.pos.x - Clamp(ball.pos.x, wall.pos.x - wall.w \div 2,
                               wall.pos.x - wall.w \div 2 + wall.w)
      dy == ball.pos.y - Clamp(ball.pos.y, wall.pos.y - wall.h \div 2,
                               wall.pos.y - wall.h \div 2 + wall.h)
  IN  IF Abs(dx) > Abs(dy) THEN Vec(Sign(dx), 0) ELSE Vec(0, Sign(dy))

(* C17: checkBallCollisions leaves the sum of the velocities of the balls 99 and
   100 as it was, and where it applies the impulse to them (they are within
   reach after the static passes and not separating) their relative speed
   along the line of centers becomes 0.85 times the speed before, with the
   opposite sign, and otherwise their velocities stay; a wall bounce that
   changes the velocity leaves at most 0.7 times the magnitude of its
   component along the normal *)
C17_NoEnergyInjected ==
  /\ [][collide =>
         LET b1 == stateRef.balls[13]
             b2 == stateRef.balls[14]
             a1 == stateRef'.balls[13]
             a2 == stateRef'.balls[14]
             d == sub(a1.pos, a2.pos)
             before == SpeedAlong(b1.vel, b2.vel, d)
             after == SpeedAlong(a1.vel, a2.vel, d)
         IN  /\ add(a1.vel, a2.vel) = add(b1.vel, b2.vel)
             /\ IF Within(a1, a2, a1.r + a2.r + Unit) /\ before <= 0
                THEN Abs(1000 * after + BALL_BOUNCE * before) <= 1000 * SpeedTolerance
                ELSE a1.vel = b1.vel /\ a2.vel = b2.vel]_vars
  /\ [][\A k \in {13, 14}, w \in DOMAIN walls :
          (bounce(k, w) /\ stateRef'.balls[k].vel # stateRef.balls[k].vel) =>
            LET n == WallNormal(stateRef.balls[k], walls[w])
            IN  /\ dot(stateRef.balls[k].vel, n) < 0
                /\ dot(stateRef'.balls[k].vel, n) >= 0
                /\ 1000 * dot(stateRef'.balls[k].vel, n)
                     <= WALL_BOUNCE * Abs(dot(stateRef.balls[k].vel, n))]_vars

(* the balls 99 and 100 are leaving each other after an impulse, and ball 99
   has bounced off a wall *)
C17_Witness ==
  /\ Within(stateRef.balls[13], stateRef.balls[14], 2 * radius + Unit)
  /\ SpeedAlong(stateRef.balls[13].vel, stateRef.balls[14].vel,
                sub(stateRef.balls[13].pos, stateRef.balls[14].pos)) > 0
  /\ stateRef.balls[13].vel # Vec(0, 0)
  /\ stateRef.balls[14].vel \notin OtherVelocities
  /\ Len(events) > 0

(* C20: checkWallCollision on a ball in contact with the wall, with n the normal
   (sign(dx), 0) when |dx| > |dy| and (0, sign(dy)) otherwise: if the dot
   product of the velocity and n is negative the velocity becomes the
   reflection about n scaled by 0.7 and one wall event is pushed; in every
   other case, the ball in contact or not, the velocity stays and no event is
   pushed *)
C20_WallResponse ==
  [][\A k \in {13, 14}, w \in DOMAIN walls :
       bounce(k, w) =>
         LET ball == stateRef.balls[k]
             n == WallNormal(ball, walls[w])
             vDotN == dot(ball.vel, n)
             reflected == Vec(ball.vel.x - 2 * vDotN * n.x, ball.vel.y - 2 * vDotN * n.y)
         IN  IF TouchesWall(ball, walls[w]) /\ vDotN < 0
             THEN /\ stateRef'.balls[k].vel = Vec(Trunc(reflected.x * 7, 10),
                                                  Trunc(reflected.y * 7, 10))
                  /\ events' = Append(events, Event("wall", 0))
             ELSE /\ stateRef'.balls[k].vel = ball.vel
                  /\ events' = events]_vars

(* ball 99, put 20 px off the left wall and moving into it, has been turned
   back with one wall event *)
C20_Witness ==
  /\ events = <<Event("wall", 0)>>
  /\ stateRef.balls[13].vel.x > 0
  /\ stateRef.balls[13].pos.y = bounds.cy
  /\ stateRef.balls[13].pos.x <= leftWallEdge + radius

(* a payload that makes the handler return after its first part: it carries
   the status finished and the local status is another *)
EndsMatch(p) == p.status = "finished" /\ status # "finished"

(* a payload with a shot of the opponent whose timestamp has not been seen *)
NewOpponentShot(p) ==
  /\ p.last_shot_vector # <<>>
  /\ p.last_shot_vector[1].timestamp \notin processedShots
  /\ p.last_shot_vector[1].shooterId # playerId

(* the call of shoot the handler is to make for the shot of a payload, as the
   next call *)
ReplayOf(p) ==
  [call |-> calls + 1,
   ballId |-> p.last_shot_vector[1].ballId,
   vector |-> Vec(p.last_shot_vector[1].x, p.last_shot_vector[1].y),
   power |-> p.last_shot_vector[1].power]

(* C13: the handler, called with a payload that carries a game_state and does
   not end the match, passes the game_state to setGameState if no simulation is
   running when it comes to the sync, and does not pass it if one is running *)
C13_SyncOnlyAtRest ==
  [][\A p \in Payloads :
       (handler(p) /\ p.game_state # <<>> /\ ~EndsMatch(p)) =>
         IF isSimulating'
         THEN \A i \in 1..Len(setCalls') : setCalls'[i] # p.game_state[1]
         ELSE \E i \in 1..Len(setCalls') : setCalls'[i] = p.game_state[1]]_vars

(* C14: when the replay of an opponent's shot completes, the local turn is the
   peer's own player id *)
C14_TurnAfterReplay ==
  [][(/\ IsTick
      /\ Len(invoked') > Len(invoked)
      /\ \E r \in 1..Len(replays) : replays[r].call = onSimulationComplete) =>
        gameState'.turn = playerId]_vars

(* C15, as claimed: the handler, called with a payload whose last_shot_vector
   has a timestamp not seen before and a shooterId that is not the local
   playerId, calls shoot once, with the ballId, the vector (x, y) and the power
   of the payload *)
C15_ReplayCalled ==
  [][\A p \in Payloads :
       (handler(p) /\ NewOpponentShot(p)) =>
         /\ calls' = calls + 1
         /\ replays' = Append(replays, ReplayOf(p))]_vars

(* C15, amended: the same, for a payload that does not end the match; for one
   that does, the handler calls shoot not at all *)
C15_ReplayCalledAmended ==
  [][\A p \in Payloads :
       (handler(p) /\ NewOpponentShot(p)) =>
         IF EndsMatch(p)
         THEN calls' = calls /\ replays' = replays
         ELSE /\ calls' = calls + 1
              /\ replays' = Append(replays, ReplayOf(p))]_vars

(* player 2 has been called with the shot of player 1 and has called shoot
   with it, once *)
C15_Witness ==
  /\ playerId = 2
  /\ processedShots = {1}
  /\ calls = 1
  /\ replays = <<[call |-> 1, ballId |-> 0, vector |-> Vec(10, 0), power |-> 10]>>

(* a state with its dead balls taken away from where they are: each is put on
   the center of the arena and given a velocity *)
DeadDisplaced(state) ==
  [state EXCEPT !.balls =
     [k \in DOMAIN state.balls |->
        IF state.balls[k].isDead
        THEN [state.balls[k] EXCEPT !.pos = Vec(bounds.cx, bounds.cy),
                                    !.vel = Vec(1000, 1000)]
        ELSE state.balls[k]]]

(* C21: in every tick a ball that is dead at the start keeps its position and
   its velocity; the events of the tick and what the tick makes of every other
   ball are what they are with the dead balls anywhere else; and a ball that
   dies in the tick ends it where integration and the walls have put it, with
   the velocity they have left it, untouched by the resolution of the balls *)
C21_DeadBallsInert ==
  [][IsTick =>
       /\ \A k \in Balls :
            stateRef.balls[k].isDead =>
              /\ stateRef'.balls[k].pos = stateRef.balls[k].pos
              /\ stateRef'.balls[k].vel = stateRef.balls[k].vel
       /\ \E res \in {update(DeadDisplaced(stateRef))} :
            /\ res.events = events'
            /\ res.state.scores = stateRef'.scores
            /\ \A k \in Balls :
                 ~stateRef.balls[k].isDead => res.state.balls[k] = stateRef'.balls[k]
       /\ \A k \in Balls :
            (~stateRef.balls[k].isDead /\ stateRef'.balls[k].isDead) =>
              \E walled \in {checkWalls([ball |-> integrate(stateRef.balls[k]),
                                         events |-> <<>>], 1).ball} :
                /\ stateRef'.balls[k].pos = walled.pos
                /\ stateRef'.balls[k].vel = walled.vel]_vars

(* ball 0 is rolling within reach of a ball that is dead *)
C21_Witness ==
  /\ isSimulating
  /\ \E i, j \in Balls :
       /\ stateRef.balls[i].isDead
       /\ ~stateRef.balls[j].isDead
       /\ stateRef.balls[j].vel # Vec(0, 0)
       /\ Closer(stateRef.balls[i], stateRef.balls[j], 2 * radius)

(* C22: a tick leaves the scale of a ball that is living at its start as it
   is, takes one step of 0.1 from the scale of a dead ball whose scale is
   greater than 0 and leaves the scale of a dead ball whose scale is 0 or less
   as it is; no scale is ever below the value eleven steps under 1 (which is
   above -0.1), so a ball is done shrinking eleven ticks after it died *)
C22_ScaleEvolution ==
  /\ [](\A k \in Balls :
          /\ stateRef.balls[k].scale \in 0..(LastPositiveScale + 1)
          /\ ~stateRef.balls[k].isDead => stateRef.balls[k].scale = 0)
  /\ [][IsTick =>
          \A k \in Balls :
            stateRef'.balls[k].scale =
              IF stateRef.balls[k].isDead /\ stateRef.balls[k].scale <= LastPositiveScale
              THEN stateRef.balls[k].scale + 1
              ELSE stateRef.balls[k].scale]_vars

(* a tick is due with one ball shrunk to the end, one in the middle of
   shrinking and one living *)
C22_Witness ==
  /\ isSimulating
  /\ \E i, j, k \in Balls :
       /\ stateRef.balls[i].isDead /\ stateRef.balls[i].scale = LastPositiveScale + 1
       /\ stateRef.balls[j].isDead /\ stateRef.balls[j].scale \in 1..LastPositiveScale
       /\ ~stateRef.balls[k].isDead

(* C23: a tick leaves the number and the order of the balls, the id, the
   player and the radius of every ball and the turn as they are; of a ball it
   changes nothing but pos, vel, rotation, scale and isDead, and of the state
   nothing but the balls, the scores, the status and the winner *)
C23_TickFrame ==
  [][IsTick =>
       /\ DOMAIN stateRef'.balls = DOMAIN stateRef.balls
       /\ \A k \in Balls :
            stateRef'.balls[k] =
              [stateRef.balls[k] EXCEPT !.pos = stateRef'.balls[k].pos,
                                        !.vel = stateRef'.balls[k].vel,
                                        !.rotation = stateRef'.balls[k].rotation,
                                        !.scale = stateRef'.balls[k].scale,
                                        !.isDead = stateRef'.balls[k].isDead]
       /\ stateRef' = [stateRef EXCEPT !.balls = stateRef'.balls,
                                       !.scores = stateRef'.scores,
                                       !.status = stateRef'.status,
                                       !.winner = stateRef'.winner]]_vars

(* a tick has eliminated a ball, ended the match and left balls rolling *)
C23_Witness ==
  /\ isSimulating
  /\ stateRef.status = "finished"
  /\ stateRef.winner # 0
  /\ stateRef.scores # [p1 |-> 7, p2 |-> 7]
  /\ \E k \in Balls : ~stateRef.balls[k].isDead /\ stateRef.balls[k].vel # Vec(0, 0)

(* C25: a tick that starts with a winner set leaves the winner as it is *)
C25_WinnerStable ==
  [][(IsTick /\ stateRef.winner # 0) => stateRef'.winner = stateRef.winner]_vars

(* C30: a call of shoot made when the status of the state is finished changes
   the velocity of no ball and does not set isSimulating *)
C30_NoShotAfterFinish ==
  [][(IsCall /\ stateRef.status = "finished") =>
       /\ \A k \in Balls : stateRef'.balls[k].vel = stateRef.balls[k].vel
       /\ isSimulating' = isSimulating]_vars

(* C26: whenever no simulation is running, the state of the driver
   (stateRef.current) is the published gameState *)
C26_RefIsPublished == ~isSimulating => stateRef = gameState

(* C28: the handler calls shoot only for a shot whose timestamp it has not
   called shoot for before and whose shooterId is not the local playerId, with
   or without a game_state in the payload; so the calls it has made are as
   many as the timestamps it has recorded, one for each *)
C28_ReplayOnce ==
  /\ [](Len(replays) = Cardinality(processedShots))
  /\ [][\A p \in Payloads :
          (handler(p) /\ p.last_shot_vector # <<>>) =>
            /\ (\/ p.last_shot_vector[1].timestamp \in processedShots
                \/ p.last_shot_vector[1].shooterId = playerId)
                 => (calls' = calls /\ replays' = replays
                     /\ processedShots' = processedShots)
            /\ calls' # calls =>
                 /\ calls' = calls + 1
                 /\ processedShots' =
                      processedShots \cup {p.last_shot_vector[1].timestamp}]_vars

(* player 1 has replayed the shot of player 2 and has then been called with
   the same shot again, in a row with a game_state: the last step has passed
   the game_state to setGameState and has called shoot no second time *)
C28_Witness ==
  /\ playerId = 1
  /\ delivered = 2
  /\ processedShots = {2}
  /\ calls = 1
  /\ refused = {}
  /\ Len(replays) = 1
  /\ setCalls = <<initGame>>

(* C24: in a local game the step that completes the k-th shot leaves the
   published gameState with the turn 2 when k is odd and with the turn 1 when
   k is even *)
C24_TurnAlternates ==
  [][Len(invoked') = Len(invoked) + 1 =>
       gameState'.turn = IF Len(invoked') % 2 = 1 THEN 2 ELSE 1]_vars

(* C29: whenever isProcessingShot is true it is false again later *)
C29_ShooterReleased == isProcessingShot ~> ~isProcessingShot

(* C27: at most one client has ended joinGame with playerId 2 and status
   playing, and a client that has ended it otherwise has an error and the
   playerId it had *)
C27_OneJoiner ==
  /\ Cardinality({c \in Clients : joiners[c].playerId = 2}) <= 1
  /\ \A c \in Clients :
       (joiners[c].at = "end" /\ joiners[c].playerId # 2) =>
         (joiners[c].error # "" /\ joiners[c].playerId = 0)

====
